---------------------------- MODULE Spec2Model ----------------------------
(***************************************************************************)
(* Growler: the incremental HTTP request parser (growler/http/parser.py),  *)
(* the responder that feeds it (growler/http/responder.py), the middleware *)
(* chain (growler/middleware_chain.py) and the application's dispatcher    *)
(* (growler/app.py).                                                       *)
(*                                                                         *)
(* Text is a sequence of one-character strings, so that chunk boundaries,  *)
(* '\r', '\n', blanks and colons are all visible to the model.             *)
(***************************************************************************)
EXTENDS Integers, Sequences, FiniteSets, TLC

VARIABLES
    input,      \* parser: the request block the client is sending
    rest,       \* parser: the part of the block not yet passed to consume
    parser,     \* parser: the fields of the Parser object
    parent,     \* parser: what the parser's parent was told (callback log)
    last,       \* parser: what the latest consume call did
    plines,     \* parser: every complete line consume has split off so far
    responder,  \* responder: the fields of the GrowlerHTTPResponder object
    rrest,      \* responder: the bytes the transport has not delivered yet
    reqbody,    \* responder: the request's body future (<<>>: not resolved)
    rlast,      \* responder: what the latest on_data call did
    fed,        \* responder: the bytes given to validate_and_store_body_data
    mw_list,    \* chain: MiddlewareChain.mw_list
    app,        \* app: the handler lists of the App object
    pc,         \* app: where _handle_connection stands
    idx,        \* app: the position of the running loop in its handler list
    ended,      \* app: res.has_ended
    log,        \* app: every handler invoked for the connection, in order
    escaped,    \* app: the exception that left _handle_connection (<<>>: none)
    errors,     \* app: the exceptions the dispatcher caught, in order
    yielded,    \* chain: what the last call of the chain yielded (<<>>: no call)
    matched     \* app: the routes match_routes yielded for the request

pvars == <<input, rest, parser, parent, last, plines>>
rvars == <<responder, rrest, reqbody, rlast, fed>>
cvars == <<mw_list, yielded>>
avars == <<app, pc, idx, ended, log, escaped, errors, matched>>

vars == <<input, rest, parser, parent, last, plines,
          responder, rrest, reqbody, rlast, fed,
          mw_list, app, pc, idx, ended, log, escaped, errors, yielded,
          matched>>

---------------------------------------------------------------------------
(* Bounds of the model *)

\* most header lines (blank line not counted) in a generated request block
MaxLines == 2

\* most continuation lines after one header in a generated request block
MaxConts == 2

\* the number of body bytes the client sends after the header block, and
\* the largest Content-Length it declares
MaxBody == 3

\* most lines given to a parser that is reading headers
MaxHeaderLines == 2

\* most entries added to a middleware chain
MaxChain == 3

\* most handlers registered on an App, over all its lists
MaxHandlers == 4

\* most routes the router yields for a request
MaxRoutes == 2

\* consume calls made on one parser
MaxCalls == 4

---------------------------------------------------------------------------
(* Text helpers: Python's str operations on sequences of characters *)

LF   == <<"\n">>
CRLF == <<"\r", "\n">>

\* None for text-valued fields (EOL_TOKEN before detection)
None == <<>>

\* the characters str.split() and str.strip() treat as whitespace
IsSpace(c) == c \in {" ", "\t", "\r", "\n"}

\* the element of a one-element set: Only({ F(x) : x \in {e} }) is F(e) with e
\* evaluated once
Only(S) == CHOOSE x \in S : TRUE

\* s[i..] of Python, 1-based here
Drop(s, n) == SubSeq(s, n + 1, Len(s))
Take(s, n) == SubSeq(s, 1, n)

StartsWith(s, t) == Len(s) >= Len(t) /\ Take(s, Len(t)) = t
EndsWith(s, t)   == Len(s) >= Len(t) /\ Drop(s, Len(s) - Len(t)) = t

\* str.find: the 1-based index of the first occurrence of t in s, 0 when
\* there is none (Python's -1)
RECURSIVE FindFrom(_, _, _)
FindFrom(s, t, i) ==
    IF i + Len(t) - 1 > Len(s) THEN 0
    ELSE IF SubSeq(s, i, i + Len(t) - 1) = t THEN i
    ELSE FindFrom(s, t, i + 1)

Find(s, t) == FindFrom(s, t, 1)

\* str.split(sep): the pieces between the occurrences of sep, left to right
RECURSIVE Split(_, _)
Split(s, sep) ==
    LET i == Find(s, sep)
    IN  IF i = 0 THEN <<s>>
        ELSE <<Take(s, i - 1)>> \o Split(Drop(s, i - 1 + Len(sep)), sep)

\* str.split(sep, 1)
Split1(s, sep) ==
    LET i == Find(s, sep)
    IN  IF i = 0 THEN <<s>>
        ELSE <<Take(s, i - 1), Drop(s, i - 1 + Len(sep))>>

\* ''.join with a separator
RECURSIVE Join(_, _)
Join(ss, sep) ==
    IF ss = <<>> THEN <<>>
    ELSE IF Len(ss) = 1 THEN ss[1]
    ELSE ss[1] \o sep \o Join(Tail(ss), sep)

RECURSIVE LStrip(_)
LStrip(s) == IF s # <<>> /\ IsSpace(s[1]) THEN LStrip(Tail(s)) ELSE s

RECURSIVE RStrip(_)
RStrip(s) == IF s # <<>> /\ IsSpace(s[Len(s)]) THEN RStrip(Take(s, Len(s) - 1)) ELSE s

\* str.strip()
Strip(s) == LStrip(RStrip(s))

\* str.split() without a separator: the maximal runs of non-whitespace
RECURSIVE Words(_)
Words(s) ==
    LET t == LStrip(s)
    IN  IF t = <<>> THEN <<>>
        ELSE LET ends == { i \in 1..Len(t) : IsSpace(t[i]) }
                 n    == IF ends = {} THEN Len(t) + 1
                         ELSE CHOOSE i \in ends : \A j \in ends : i <= j
             IN  <<Take(t, n - 1)>> \o Words(Drop(t, n - 1))

\* str.upper() on the letters the model uses
UpperChar(c) ==
    CASE c = "a" -> "A"
      [] c = "b" -> "B"
      [] c = "c" -> "C"
      [] c = "d" -> "D"
      [] c = "v" -> "V"
      [] c = "w" -> "W"
      [] c = "x" -> "X"
      [] c = "q" -> "Q"
      [] OTHER   -> c

Upper(s) == [i \in 1..Len(s) |-> UpperChar(s[i])]


---------------------------------------------------------------------------
(* growler/http/parser.py *)

\* the characters INVALID_CHAR_REGEX matches: the controls \x00-\x1F and
\* \x7F (of which the model's alphabet holds tab, CR and LF), blank, and
\* the separators ( ) , / : ; < = > ? @ [ ] { } \ "
IsInvalidChar(c) ==
    c \in { "\t", "\r", "\n", " ", "(", ")", ",", "/", ":", ";", "<", "=",
            ">", "?", "@", "[", "]", "{", "}", "\\", "\"" }

\* a mutant of is_invalid_header_name: the empty name passes
is_invalid_header_name_AllowsEmpty(string) ==
    \E i \in 1..Len(string) : IsInvalidChar(string[i])

\* Parser.is_invalid_header_name: the empty name, or a name holding a
\* character of INVALID_CHAR_REGEX
is_invalid_header_name(string) ==
    string = <<>> \/ \E i \in 1..Len(string) : IsInvalidChar(string[i])

\* a mutant of header_from_line: the name is stored as it was written
header_from_line_KeepsCase(line) ==
    LET kv == Split1(line, <<":">>)
    IN  IF Len(kv) # 2
        THEN [out |-> "InvalidHeader", hdr |-> <<>>]
        ELSE LET key   == Strip(kv[1])
                 value == Strip(kv[2])
             IN  IF is_invalid_header_name(key)
                 THEN [out |-> "InvalidHeader", hdr |-> <<>>]
                 ELSE [out |-> "ok",
                       hdr |-> <<[key   |-> key,
                                  value |-> [list |-> FALSE, items |-> <<value>>]]>>]

\* Parser.header_from_line: split on the first colon, strip both halves,
\* check the name, store it upper-cased. hdr is the {'key', 'value'} dict;
\* a value is kept as its list of strings with a flag telling a plain string
\* (list = FALSE, one item) from a Python list.
header_from_line(line) ==
    LET kv == Split1(line, <<":">>)
    IN  IF Len(kv) # 2
        THEN [out |-> "InvalidHeader", hdr |-> <<>>]
        ELSE LET key   == Strip(kv[1])
                 value == Strip(kv[2])
             IN  IF is_invalid_header_name(key)
                 THEN [out |-> "InvalidHeader", hdr |-> <<>>]
                 ELSE [out |-> "ok",
                       hdr |-> <<[key   |-> Upper(key),
                                  value |-> [list |-> FALSE, items |-> <<value>>]]>>]

\* dict item assignment on a dict kept as a set of (key, val) entries
DictSet(d, k, v) == { e \in d : e.key # k } \cup { [key |-> k, val |-> v] }

\* Parser._flush_header_buffer, called with a pending header: store it into
\* self.headers and set the pending slot to None (the empty sequence here)
_flush_header_buffer(p) ==
    [p EXCEPT !.headers = DictSet(@, p.header_buffer[1].key, p.header_buffer[1].value),
              !.header_buffer = <<>>]

\* a mutant of AppendContinuation: every continuation builds [first, line]
\* anew, dropping the continuations already folded
AppendContinuation_DropsEarlier(val, line) ==
    [list |-> TRUE, items |-> <<val.items[1], line>>]

\* the continuation branch of store_headers_from_lines: a plain string
\* becomes [val, line], a list gets line appended
AppendContinuation(val, line) ==
    [list |-> TRUE, items |-> Append(val.items, line)]

\* Parser.store_headers_from_lines. out is "ok" or the exception that left
\* the loop; the fields assigned before the exception keep their values.
\* Flushing on the blank line with no pending header subscripts None, which
\* raises TypeError.
RECURSIVE store_headers_from_lines(_, _)
store_headers_from_lines(p, lines) ==
    IF lines = <<>> THEN [p |-> p, out |-> "ok"]
    ELSE LET line == Head(lines)
         IN  IF line = <<>>
             THEN IF p.header_buffer = <<>>
                  THEN [p |-> p, out |-> "TypeError"]
                  ELSE [p |-> _flush_header_buffer(p), out |-> "ok"]
             ELSE IF line[1] \in {" ", "\t"}
             THEN IF p.header_buffer = <<>>
                  THEN [p |-> p, out |-> "InvalidHeader"]
                  ELSE store_headers_from_lines(
                           [p EXCEPT !.header_buffer[1].value =
                                         AppendContinuation(@, Strip(line))],
                           Tail(lines))
             ELSE LET p1 == IF p.header_buffer # <<>>
                            THEN _flush_header_buffer(p) ELSE p
                      h  == header_from_line(line)
                  IN  IF h.out # "ok"
                      THEN [p |-> p1, out |-> h.out]
                      ELSE store_headers_from_lines(
                               [p1 EXCEPT !.header_buffer = h.hdr], Tail(lines))

\* a mutant of _find_newline: the token is chosen again from every chunk
\* that holds a '\n'
_find_newline_Redetect(eol, string) ==
    LET line_end_pos == Find(string, LF)
    IN  IF line_end_pos # 0
        THEN LET prev_char == IF line_end_pos = 1 THEN string[Len(string)]
                              ELSE string[line_end_pos - 1]
                 tok == IF prev_char = "\r" THEN CRLF ELSE LF
             IN  [eol |-> tok, pos |-> Find(string, tok)]
        ELSE [eol |-> eol, pos |-> 0]

\* Parser._find_newline: the position of the end-of-line token in this
\* chunk (0: none) and the token after the call. While the token is
\* undetermined it is chosen from the character before the chunk's first
\* '\n'; when that '\n' opens the chunk, Python's string[-1] is the chunk's
\* last character.
_find_newline(eol, string) ==
    IF eol = None
    THEN LET line_end_pos == Find(string, LF)
         IN  IF line_end_pos # 0
             THEN LET prev_char == IF line_end_pos = 1 THEN string[Len(string)]
                                   ELSE string[line_end_pos - 1]
                      tok == IF prev_char = "\r" THEN CRLF ELSE LF
                  IN  [eol |-> tok, pos |-> Find(string, tok)]
             ELSE [eol |-> None, pos |-> 0]
    ELSE [eol |-> eol, pos |-> Find(string, eol)]

HTTP11 == <<"H", "T", "T", "P", "/", "1", ".", "1">>
HTTP10 == <<"H", "T", "T", "P", "/", "1", ".", "0">>
GET    == <<"G", "E", "T">>
POST   == <<"P", "O", "S", "T">>

\* urllib.parse.urlparse on the request targets the model sends: they have
\* no scheme, no '//' authority, no ';' parameters and no '#' fragment, so
\* the result is the path before the first '?' and the query after it
urlparse(uri) ==
    LET pq == Split1(uri, <<"?">>)
    IN  [path |-> pq[1], query |-> IF Len(pq) = 2 THEN pq[2] ELSE <<>>]

\* a mutant of parse_request_line: only a line of fewer than three tokens is
\* refused, the tokens after the third are ignored
parse_request_line_IgnoresExtra(p, req_line) ==
    LET w == Words(req_line)
    IN  IF Len(w) < 3 THEN [p |-> p, out |-> "BadRequest"]
        ELSE IF w[3] \notin {HTTP11, HTTP10}
        THEN [p |-> p, out |-> "VersionNotSupported"]
        ELSE LET p1 == [p EXCEPT !.HTTP_VERSION = Split(Drop(w[3], Find(w[3], <<"/">>)), <<".">>),
                                 !.version = <<w[3]>>,
                                 !.method = <<w[1]>>]
             IN  IF w[1] \notin {GET, POST}
                 THEN [p |-> p1, out |-> "NotImplemented"]
                 ELSE [p |-> [p1 EXCEPT !.parsed_url = <<urlparse(w[2])>>], out |-> "ok"]

\* a mutant of parse_request_line: the method is looked up before the
\* version is checked
parse_request_line_MethodFirst(p, req_line) ==
    LET w == Words(req_line)
    IN  IF Len(w) # 3 THEN [p |-> p, out |-> "BadRequest"]
        ELSE IF w[1] \notin {GET, POST}
        THEN [p |-> [p EXCEPT !.method = <<w[1]>>], out |-> "NotImplemented"]
        ELSE IF w[3] \notin {HTTP11, HTTP10}
        THEN [p |-> p, out |-> "VersionNotSupported"]
        ELSE [p |-> [p EXCEPT !.HTTP_VERSION = Split(Drop(w[3], Find(w[3], <<"/">>)), <<".">>),
                              !.version = <<w[3]>>,
                              !.method = <<w[1]>>,
                              !.parsed_url = <<urlparse(w[2])>>],
              out |-> "ok"]

\* Parser.parse_request_line. out is "ok" or the exception raised; the
\* attributes assigned before a raise keep their new values.
parse_request_line(p, req_line) ==
    LET w == Words(req_line)
    IN  IF Len(w) # 3 THEN [p |-> p, out |-> "BadRequest"]
        ELSE LET method      == w[1]
                 request_uri == w[2]
                 version     == w[3]
             IN  IF version \notin {HTTP11, HTTP10}
                 THEN [p |-> p, out |-> "VersionNotSupported"]
                 ELSE LET num_str == Drop(version, Find(version, <<"/">>))
                          p1 == [p EXCEPT !.HTTP_VERSION = Split(num_str, <<".">>),
                                          !.version = <<version>>,
                                          !.method = <<method>>]
                      IN  IF method \notin {GET, POST}
                          THEN [p |-> p1, out |-> "NotImplemented"]
                          ELSE [p |-> [p1 EXCEPT !.parsed_url = <<urlparse(request_uri)>>],
                                out |-> "ok"]

\* Parser.__init__
NewParser ==
    [ EOL_TOKEN          |-> None,
      buffer             |-> <<>>,     \* ''.join(self._buffer): the list is only read joined
      HTTP_VERSION       |-> <<>>,
      header_buffer      |-> <<>>,     \* None, or <<the pending header>>
      headers            |-> {},
      needs_request_line |-> TRUE,
      needs_headers      |-> TRUE,
      method             |-> <<>>,     \* unset until parse_request_line
      version            |-> <<>>,
      parsed_url         |-> <<>> ]

\* a mutant of ConsumeHeaders: the headers are read whether or not
\* needs_headers is still set
ConsumeHeaders_Unguarded(p, lines) ==
    LET r == store_headers_from_lines(p, lines)
    IN  IF r.out # "ok" THEN [p |-> r.p, out |-> r.out, sh |-> <<>>]
        ELSE IF r.p.header_buffer = <<>>
        THEN [p |-> [r.p EXCEPT !.needs_headers = FALSE], out |-> "ok",
              sh |-> <<r.p.headers>>]
        ELSE [p |-> r.p, out |-> "ok", sh |-> <<>>]

\* the headers part of consume (lines 84-91), entered with lines left
ConsumeHeaders(p, lines) ==
    IF ~p.needs_headers THEN [p |-> p, out |-> "ok", sh |-> <<>>]
    ELSE LET r == store_headers_from_lines(p, lines)
         IN  IF r.out # "ok" THEN [p |-> r.p, out |-> r.out, sh |-> <<>>]
             ELSE IF r.p.header_buffer = <<>>
             THEN [p |-> [r.p EXCEPT !.needs_headers = FALSE], out |-> "ok",
                   sh |-> <<r.p.headers>>]
             ELSE [p |-> r.p, out |-> "ok", sh |-> <<>>]

\* Parser.consume(data) on the parser p. The result holds the parser after
\* the call, out ("ok" for a normal return, else the exception raised), the
\* calls made on the parent (srl: set_request_line, sh: set_headers), the
\* complete lines split off (lines) and the line given to parse_request_line
\* if any (rl). The model's alphabet is ASCII, so decode never fails.
consume(p, data) ==
    LET fn == _find_newline(p.EOL_TOKEN, data)
        p0 == [p EXCEPT !.EOL_TOKEN = fn.eol]
    IN  IF fn.pos = 0
        THEN [p |-> [p0 EXCEPT !.buffer = @ \o data], out |-> "ok",
              srl |-> <<>>, sh |-> <<>>, lines |-> <<>>, rl |-> <<>>]
        ELSE
        LET all       == Split(p0.buffer \o data, p0.EOL_TOKEN)
            last_line == all[Len(all)]
            lines     == Take(all, Len(all) - 1)
            p1 == [p0 EXCEPT !.buffer = IF ~EndsWith(data, p0.EOL_TOKEN)
                                        THEN last_line ELSE <<>>]
        IN  IF p1.needs_request_line
            THEN LET r == parse_request_line(p1, lines[1])
                 IN  IF r.out # "ok"
                     THEN [p |-> r.p, out |-> r.out, srl |-> <<>>, sh |-> <<>>,
                           lines |-> lines, rl |-> <<lines[1]>>]
                     ELSE LET p2  == [r.p EXCEPT !.needs_request_line = FALSE]
                              srl == <<[method  |-> p2.method[1],
                                        url     |-> p2.parsed_url[1],
                                        version |-> p2.version[1]]>>
                          IN  IF Tail(lines) = <<>>
                              THEN [p |-> p2, out |-> "ok", srl |-> srl, sh |-> <<>>,
                                    lines |-> lines, rl |-> <<lines[1]>>]
                              ELSE LET h == ConsumeHeaders(p2, Tail(lines))
                                   IN  [p |-> h.p, out |-> h.out, srl |-> srl,
                                        sh |-> h.sh, lines |-> lines,
                                        rl |-> <<lines[1]>>]
            ELSE LET h == ConsumeHeaders(p1, lines)
                 IN  [p |-> h.p, out |-> h.out, srl |-> <<>>, sh |-> h.sh,
                      lines |-> lines, rl |-> <<>>]

---------------------------------------------------------------------------
(* The client of the parser: request blocks and how they arrive *)

SP == <<" ">>

\* request lines: two valid ones, an unsupported version, an unknown method,
\* both at once, and lines of two, four and no tokens
RequestLines ==
    { GET \o SP \o <<"/">> \o SP \o HTTP11,
      POST \o SP \o <<"/", "x", "?", "q">> \o SP \o HTTP10,
      GET \o SP \o <<"/">> \o SP \o <<"H", "T", "T", "P", "/", "2", ".", "0">>,
      <<"P", "U", "T">> \o SP \o <<"/">> \o SP \o HTTP11,
      <<"P", "U", "T">> \o SP \o <<"/">> \o SP \o <<"H", "T", "T", "P", "/", "2", ".", "0">>,
      GET \o SP \o <<"/">>,
      GET \o SP \o <<"/">> \o SP \o HTTP11 \o SP \o <<"x">>,
      <<>> }

ValidRequestLines ==
    { GET \o SP \o <<"/">> \o SP \o HTTP11,
      POST \o SP \o <<"/", "x", "?", "q">> \o SP \o HTTP10 }

\* header lines: 'A:v' and 'a: w' (the same name in lower case, a blank
\* before the value) open a header; ' c' and '\td' continue one
HeadLines == { <<"A", ":", "v">>, <<"a", ":", " ", "w">> }
ContLines == { <<" ", "c">>, <<"\t", "d">> }
HeaderLines == HeadLines \cup ContLines

SeqsUpTo(S, n) == UNION { [1..k -> S] : k \in 0..n }

\* header blocks: every sequence of at most MaxLines header lines, and every
\* header followed by at most MaxConts continuation lines
HeaderBlocks ==
    SeqsUpTo(HeaderLines, MaxLines)
        \cup { <<h>> \o cs : h \in HeadLines, cs \in SeqsUpTo(ContLines, MaxConts) }

PlainGet == GET \o SP \o <<"/">> \o SP \o HTTP11

\* a request block: the request line ended by eol1, then the header lines
\* and the closing blank line, each ended by eol2. The plain GET request is
\* sent with every header block and every pair of line endings; the other
\* request lines with one header and one line ending throughout.
Inputs ==
    { in \in [ rl : RequestLines, hl : HeaderBlocks,
               eol1 : {LF, CRLF}, eol2 : {LF, CRLF} ] :
        in.rl # PlainGet => in.hl = << <<"A", ":", "v">> >> /\ in.eol1 = in.eol2 }

RECURSIVE Concat(_, _)
Concat(ss, sep) == IF ss = <<>> THEN <<>> ELSE Head(ss) \o sep \o Concat(Tail(ss), sep)

Stream(in) == in.rl \o in.eol1 \o Concat(in.hl, in.eol2) \o in.eol2

\* what has been passed to consume so far
Consumed == Take(Stream(input), Len(Stream(input)) - Len(rest))

\* the responder's variables while only a parser is being exercised
IdleResponder ==
    /\ responder = <<>>
    /\ rrest = <<>>
    /\ reqbody = <<>>
    /\ rlast = <<>>
    /\ fed = <<>>

\* the chain's and the app's variables while they are not being exercised
IdleChain == mw_list = <<>> /\ yielded = <<>>

IdleApp ==
    /\ app = <<>>
    /\ pc = "none"
    /\ idx = 0
    /\ ended = FALSE
    /\ log = <<>>
    /\ escaped = <<>>
    /\ errors = <<>>
    /\ matched = <<>>

InitParser ==
    /\ input \in Inputs
    /\ rest = Stream(input)
    /\ parser = NewParser
    /\ parent = [request_line |-> <<>>, headers |-> <<>>]
    /\ last = [out |-> "none", rl |-> <<>>, srl |-> FALSE, sh |-> FALSE]
    /\ plines = <<>>
    /\ IdleResponder
    /\ IdleChain
    /\ IdleApp

\* the transport delivers the next chunk, of any length, and the parser
\* consumes it; the parent records set_request_line and set_headers
Feed ==
    /\ rest # <<>>
    /\ \E n \in 1..Len(rest) :
         \E r \in {consume(parser, Take(rest, n))} :
             /\ parser' = r.p
             /\ parent' = [request_line |-> parent.request_line \o r.srl,
                           headers      |-> parent.headers \o r.sh]
             /\ last' = [out |-> r.out, rl |-> r.rl,
                         srl |-> r.srl # <<>>, sh |-> r.sh # <<>>]
             /\ plines' = plines \o r.lines
             /\ rest' = Drop(rest, n)
    /\ input' = input
    /\ UNCHANGED <<rvars, cvars, avars>>

NextParser == Feed

Spec == InitParser /\ [][NextParser]_vars

\* header lines of every kind: valid ones (a value holding a colon, a name
\* with an apostrophe, a dash or an exclamation mark among them),
\* continuations, the blank line, a line without a colon, an empty name, and
\* names holding a blank, a control character, a double quote, a backslash
\* or a separator
TestLines ==
    { <<"a", ":", "v">>, <<"b", ":", " ", "w">>, <<"a", ":", "b", ":", "c">>,
      <<"a", "'", "b", ":", "v">>, <<"a", "-", "b", ":", "v">>, <<"a", "!", ":", "v">>,
      <<" ", "c">>, <<"\t", "d">>, <<>>,
      <<"a", "b">>, <<":", "v">>, <<"a", " ", "b", ":", "v">>,
      <<"a", "\r", "b", ":", "v">>, <<"a", "\"", ":", "v">>, <<"a", "\\", ":", "v">>,
      <<"a", "(", ":", "v">>, <<"a", "@", ":", "v">>, <<"a", "/", "b", ":", "v">>,
      <<"a", "{", ":", "v">>, <<"a", ";", ":", "v">> }

\* a parser that has read the request line of a plain GET request ended by
\* '\n' and now reads headers
InitHeaders ==
    /\ parser = consume(NewParser, PlainGet \o LF).p
    /\ input = <<>>
    /\ rest = <<>>
    /\ parent = [request_line |-> <<>>, headers |-> <<>>]
    /\ last = [out |-> "none", rl |-> <<>>, srl |-> FALSE, sh |-> FALSE]
    /\ plines = <<>>
    /\ IdleResponder
    /\ IdleChain
    /\ IdleApp

\* one more line arrives, whole, and the parser consumes it; input keeps the
\* line and the parser it was given to
FeedLine ==
    /\ Len(plines) < MaxHeaderLines
    /\ \E line \in TestLines :
         \E r \in {consume(parser, line \o LF)} :
             /\ parser' = r.p
             /\ parent' = [request_line |-> parent.request_line \o r.srl,
                           headers      |-> parent.headers \o r.sh]
             /\ last' = [out |-> r.out, rl |-> r.rl,
                         srl |-> r.srl # <<>>, sh |-> r.sh # <<>>]
             /\ plines' = plines \o r.lines
             /\ input' = <<[line |-> line, before |-> parser]>>
    /\ rest' = rest
    /\ UNCHANGED <<rvars, cvars, avars>>

NextHeaders == FeedLine

SpecHeaders == InitHeaders /\ [][NextHeaders]_vars

---------------------------------------------------------------------------
(* Claims about the parser *)

\* the whole block given to a fresh parser in one consume call
WholeBlock == consume(NewParser, Stream(input))

\* the block uses one line ending throughout and a parser that gets it in
\* one call accepts it: request line and headers both committed
AcceptedWhole ==
    /\ input.eol1 = input.eol2
    /\ WholeBlock.out = "ok"
    /\ WholeBlock.srl # <<>>
    /\ WholeBlock.sh # <<>>

\* C1: chunk-boundary invariance. Once every byte of an accepted block has
\* been fed, in whatever chunks, the parent has been given the same request
\* line and the same header collection as when the block is fed in one call.
C1_ChunkInvariance ==
    (rest = <<>> /\ AcceptedWhole)
        => /\ parent.request_line = WholeBlock.srl
           /\ parent.headers = WholeBlock.sh

\* the part of C1 the code keeps: blocks whose line ending is '\n'
C1_ChunkInvarianceLF ==
    (rest = <<>> /\ AcceptedWhole /\ input.eol1 = LF)
        => /\ parent.request_line = WholeBlock.srl
           /\ parent.headers = WholeBlock.sh

\* what a header line and a continuation line of the model say
HeadName(h)  == IF h \in HeadLines THEN <<"A">> ELSE <<>>
HeadValue(h) == IF h = <<"A", ":", "v">> THEN <<"v">> ELSE <<"w">>
ContValue(c) == IF c = <<" ", "c">> THEN <<"c">> ELSE <<"d">>

\* the index of the last line of the block that opens a header (0: none)
LastHead(hl) ==
    LET hs == { i \in 1..Len(hl) : hl[i] \in HeadLines }
    IN  IF hs = {} THEN 0 ELSE CHOOSE i \in hs : \A j \in hs : j <= i

\* the value a header line followed by the continuation lines cs must get:
\* the plain string v0 without continuations, else the list [v0, c1, .., ck]
FoldedValue(h, cs) ==
    IF cs = <<>> THEN [list |-> FALSE, items |-> <<HeadValue(h)>>]
    ELSE [list |-> TRUE,
          items |-> <<HeadValue(h)>> \o [i \in 1..Len(cs) |-> ContValue(cs[i])]]

\* C6: continuation folding. When the headers of a block that starts with a
\* header line are committed, the last header 'K: v0' of the block, followed
\* by its k continuation lines, is the single entry K whose value is the
\* plain string v0 when k = 0 and the list [v0, c1, .., ck] otherwise.
C6_ContinuationFolding ==
    (parent.headers # <<>> /\ input.hl # <<>> /\ input.hl[1] \in HeadLines)
        => LET g  == LastHead(input.hl)
               cs == Drop(input.hl, g)
           IN  /\ Len(parent.headers) = 1
               /\ parent.headers[1] =
                      { [key |-> HeadName(input.hl[g]),
                         val |-> FoldedValue(input.hl[g], cs)] }

\* C6 witness: a committed header whose value is a list of three strings
\* (one header line and two continuation lines)
C6_Witness ==
    /\ parent.headers # <<>>
    /\ input.hl # <<>> /\ input.hl[1] \in HeadLines
    /\ \E e \in parent.headers[1] : e.val.list /\ Len(e.val.items) = 3

EolSticky == parser.EOL_TOKEN # None => parser'.EOL_TOKEN = parser.EOL_TOKEN

\* lines are split at the occurrences of the chosen token and nowhere else:
\* no split line holds the token, and the lines and the buffer joined by the
\* token are the text consumed so far
SplitAtTokenOnly ==
    parser.EOL_TOKEN # None
        => /\ \A i \in 1..Len(plines) : Find(plines[i], parser.EOL_TOKEN) = 0
           /\ Consumed = Join(plines \o <<parser.buffer>>, parser.EOL_TOKEN)

\* C7 (as amended): once EOL_TOKEN is set no consume call changes it, and
\* lines are split exactly at that token: with '\r\n' chosen a later bare
\* '\n' stays inside the current line's content, with '\n' chosen a later
\* '\r\n' still ends the line at its '\n' and the '\r' stays in the line.
C7_EolSticky == [][EolSticky]_vars /\ []SplitAtTokenOnly

\* C7 witness: '\r\n' was chosen from the first line, the header lines and
\* the blank line ended with a bare '\n' have all arrived, and they are all
\* still one unsplit piece of text in the buffer
C7_Witness ==
    /\ input.eol1 = CRLF /\ input.eol2 = LF /\ input.hl # <<>>
    /\ rest = <<>>
    /\ parser.EOL_TOKEN = CRLF
    /\ plines = <<input.rl>>
    /\ parser.buffer = Concat(input.hl, LF) \o LF

\* C7 as stated: the token never changes, and a later line ended with the
\* other convention is never split there. With '\n' chosen from a first
\* line ended by '\n', a split line ending in '\r' was split at a '\r\n'.
C7_Original ==
    /\ [][EolSticky]_vars
    /\ []((input.eol1 = LF /\ parser.EOL_TOKEN = LF)
            => \A i \in 1..Len(plines) : ~EndsWith(plines[i], <<"\r">>))

\* C8: a request line that does not split into exactly three tokens makes
\* the consume call that reads it fail with BadRequest, and that call does
\* not call set_request_line.
C8_BadRequestLine ==
    (last.rl # <<>> /\ Len(Words(last.rl[1])) # 3)
        => last.out = "BadRequest" /\ ~last.srl

\* C8 witness: a consume call has read a request line of four tokens
C8_Witness ==
    /\ last.rl # <<>>
    /\ Len(Words(last.rl[1])) = 4
    /\ last.out = "BadRequest"

\* the parsed form of the request targets the model sends
ParsedTarget(t) ==
    IF t = <<"/">> THEN [path |-> <<"/">>, query |-> <<>>]
    ELSE IF t = <<"/", "x", "?", "q">> THEN [path |-> <<"/", "x">>, query |-> <<"q">>]
    ELSE [path |-> <<>>, query |-> <<>>]

\* C9: for a request line of three tokens, an unsupported version fails
\* with VersionNotSupported whatever the method; else an unsupported method
\* fails with NotImplemented; else the request line is accepted and
\* (method, parsed target, version) is what set_request_line is given.
C9_RequestLineChecks ==
    (last.rl # <<>> /\ Len(Words(last.rl[1])) = 3)
        => LET w == Words(last.rl[1])
           IN  IF w[3] \notin {HTTP11, HTTP10}
               THEN last.out = "VersionNotSupported" /\ ~last.srl
               ELSE IF w[1] \notin {GET, POST}
               THEN last.out = "NotImplemented" /\ ~last.srl
               ELSE /\ last.srl
                    /\ last.out \notin {"BadRequest", "VersionNotSupported", "NotImplemented"}
                    /\ parent.request_line[Len(parent.request_line)] =
                           [method |-> w[1], url |-> ParsedTarget(w[2]), version |-> w[3]]

\* C9 witness: a request line whose method and version are both unsupported
\* has been refused for its version
C9_Witness ==
    /\ last.rl # <<>>
    /\ Len(Words(last.rl[1])) = 3
    /\ Words(last.rl[1])[1] \notin {GET, POST}
    /\ Words(last.rl[1])[3] \notin {HTTP11, HTTP10}
    /\ last.out = "VersionNotSupported"

---------------------------------------------------------------------------
(* growler/http/responder.py *)

\* GrowlerHTTPResponder.set_request_line, as far as the responder's own
\* fields go: the method is stored and a POST or PUT request starts the
\* received-byte counter at 0. HTTPMethod's members are taken to compare
\* equal to the method names the parser passes.
set_request_line(r, method) ==
    [r EXCEPT !.method = <<method>>,
              !.content_length = IF method \in {POST, <<"P", "U", "T">>}
                                 THEN <<0>> ELSE @]

\* a mutant of validate_and_store_body_data: the length of this chunk alone,
\* not the running total, is compared with the declared length
validate_and_store_body_data_PerChunk(r, data) ==
    IF r.content_length = <<>>
    THEN [r |-> r, out |-> "BadRequest", phrase |-> "unexpected"]
    ELSE LET r1 == [r EXCEPT !.content_length = <<@[1] + Len(data)>>]
             cl == r.headers[1]
         IN  IF r.headers = <<>> \/ cl.kind # "int"
             THEN [r |-> r1, out |-> "BadRequest", phrase |-> "unexpected"]
             ELSE IF Len(data) > cl.n
             THEN [r |-> r1, out |-> "BadRequest", phrase |-> "exceeds"]
             ELSE IF r1.body_buffer = <<>>
             THEN [r |-> r1, out |-> "AttributeError", phrase |-> ""]
             ELSE [r |-> [r1 EXCEPT !.body_buffer[1] = Append(@, data)],
                   out |-> "ok", phrase |-> ""]

\* GrowlerHTTPResponder.validate_and_store_body_data. Adding to a counter
\* that is None raises TypeError, a missing CONTENT-LENGTH raises KeyError,
\* comparing the counter with a header value that is text raises TypeError,
\* and so does subscripting headers that are None: all of them become
\* BadRequest('Unexpected body data sent'). The counter
\* keeps its new value when the call raises after the addition. Appending
\* to a body_buffer that is None raises AttributeError outside the try.
validate_and_store_body_data(r, data) ==
    IF r.content_length = <<>>
    THEN [r |-> r, out |-> "BadRequest", phrase |-> "unexpected"]
    ELSE LET r1 == [r EXCEPT !.content_length = <<@[1] + Len(data)>>]
             cl == r.headers[1]
         IN  IF r.headers = <<>> \/ cl.kind # "int"
             THEN [r |-> r1, out |-> "BadRequest", phrase |-> "unexpected"]
             ELSE IF r1.content_length[1] > cl.n
             THEN [r |-> r1, out |-> "BadRequest", phrase |-> "exceeds"]
             ELSE IF r1.body_buffer = <<>>
             THEN [r |-> r1, out |-> "AttributeError", phrase |-> ""]
             ELSE [r |-> [r1 EXCEPT !.body_buffer[1] = Append(@, data)],
                   out |-> "ok", phrase |-> ""]

\* b''.join(self.body_buffer)
RECURSIVE JoinChunks(_)
JoinChunks(cs) == IF cs = <<>> THEN <<>> ELSE Head(cs) \o JoinChunks(Tail(cs))

\* the class attributes and __init__ of GrowlerHTTPResponder: body_buffer,
\* content_length and headers are None, the parser is new, and self.req
\* does not exist until build_req_and_res has run
NewResponder ==
    [ headers        |-> <<>>,      \* None, or <<the CONTENT-LENGTH entry>>
      content_length |-> <<>>,      \* None, or <<the bytes counted>>
      body_buffer    |-> <<>>,      \* None, or <<the list of chunks>>
      method         |-> <<>>,
      parser         |-> NewParser,
      has_req        |-> FALSE,
      begun          |-> 0 ]

\* the body part of on_data (lines 102-107), entered with non-empty data.
\* result is what req.body.set_result is given, if it is called; without
\* self.req the call raises AttributeError.
OnDataBody(r, data) ==
    LET v == validate_and_store_body_data(r, data)
    IN  IF v.out # "ok"
        THEN [r |-> v.r, out |-> v.out, phrase |-> v.phrase, body |-> TRUE,
              result |-> <<>>, taken |-> data]
        ELSE IF v.r.headers[1].kind = "int"
                  /\ v.r.content_length[1] = v.r.headers[1].n
        THEN IF v.r.has_req
             THEN [r |-> v.r, out |-> "ok", phrase |-> "", body |-> TRUE,
                   result |-> <<JoinChunks(v.r.body_buffer[1])>>, taken |-> data]
             ELSE [r |-> v.r, out |-> "AttributeError", phrase |-> "",
                   body |-> TRUE, result |-> <<>>, taken |-> data]
        ELSE [r |-> v.r, out |-> "ok", phrase |-> "", body |-> TRUE,
              result |-> <<>>, taken |-> data]

\* a mutant of ConsumeReturn: consume returns what it has left in its buffer
ConsumeReturn_Buffer(c) == <<c.p.buffer>>

\* what Parser.consume returns to on_data (<<>>: None, <<bytes>>: bytes):
\* every return statement of consume is bare and its end is reached without
\* one, so the value is None also when the headers have just finished
ConsumeReturn(c) == <<>>

\* lines 96-99 of on_data: build_req_and_res and begin_application
BuildAndBegin(r) == [r EXCEPT !.has_req = TRUE, !.begun = @ + 1]

\* the header part of on_data (lines 91-99): the chunk goes to the parser,
\* whose calls on its parent reach the responder. The responder has no
\* set_headers method: the parser's call of it raises AttributeError before
\* the parser clears needs_headers. When consume returns a value that is
\* not None the request and response are built and the application begun,
\* and a non-empty value goes on to the body part within the same call.
OnDataHeadersOn(r, c) ==
    LET r1 == IF c.srl # <<>> THEN set_request_line(r, c.srl[1].method) ELSE r
        r2 == [r1 EXCEPT !.parser = c.p]
    IN  IF c.sh # <<>>
        THEN [r |-> [r1 EXCEPT !.parser = [c.p EXCEPT !.needs_headers = TRUE]],
              out |-> "AttributeError", phrase |-> "", body |-> FALSE,
              result |-> <<>>, taken |-> <<>>]
        ELSE IF c.out # "ok" \/ ConsumeReturn(c) = <<>>
        THEN [r |-> r2, out |-> c.out, phrase |-> "", body |-> FALSE,
              result |-> <<>>, taken |-> <<>>]
        ELSE IF ConsumeReturn(c)[1] = <<>>
        THEN [r |-> BuildAndBegin(r2), out |-> "ok", phrase |-> "",
              body |-> FALSE, result |-> <<>>, taken |-> <<>>]
        ELSE OnDataBody(BuildAndBegin(r2), ConsumeReturn(c)[1])

OnDataHeaders(r, data) ==
    Only({ OnDataHeadersOn(r, c) : c \in {consume(r.parser, data)} })

\* GrowlerHTTPResponder.on_data
on_data(r, data) ==
    IF r.headers = <<>> THEN OnDataHeaders(r, data) ELSE OnDataBody(r, data)

\* the bytes of a request body
BodyBytes == [i \in 1..MaxBody |-> IF i % 2 = 1 THEN "x" ELSE "y"]

\* what a connection sends: a valid request line, one header, the blank
\* line, then the body bytes
RStreams ==
    { rl \o LF \o <<"A", ":", "v">> \o LF \o LF \o BodyBytes : rl \in ValidRequestLines }

\* the values headers['CONTENT-LENGTH'] can have: no such key, a text value
\* as the parser stores it, or an integer
ContentLengths ==
    { [kind |-> "absent", n |-> 0] }
        \cup { [kind |-> t, n |-> k] : t \in {"str", "int"}, k \in 0..MaxBody }

\* the parser's variables while only a responder is being exercised
IdleParser ==
    /\ input = <<>>
    /\ rest = <<>>
    /\ parser = <<>>
    /\ parent = <<>>
    /\ last = <<>>
    /\ plines = <<>>

InitResponder ==
    /\ responder = NewResponder
    /\ rrest \in RStreams
    /\ reqbody = <<>>
    /\ rlast = [out |-> "none", phrase |-> "", body |-> FALSE]
    /\ fed = <<>>
    /\ IdleParser
    /\ IdleChain
    /\ IdleApp

\* the transport delivers the next chunk, of any length, to on_data
OnData ==
    /\ rrest # <<>>
    /\ \E n \in 1..Len(rrest) :
         \E o \in {on_data(responder, Take(rrest, n))} :
             /\ responder' = o.r
             /\ rlast' = [out |-> o.out, phrase |-> o.phrase, body |-> o.body]
             /\ reqbody' = IF o.result # <<>> THEN o.result ELSE reqbody
             /\ fed' = fed \o o.taken
             /\ rrest' = Drop(rrest, n)
    /\ UNCHANGED <<pvars, cvars, avars>>

\* the headers setter: once the parser has read the whole header block and
\* handed it over, the protocol's client_headers gets a header collection,
\* which is what makes self.headers not None. The CONTENT-LENGTH entry of the
\* collection is any of ContentLengths.
SetHeaders ==
    /\ responder.headers = <<>>
    /\ ~rlast.body /\ rlast.out = "AttributeError"
    /\ \E cl \in ContentLengths : responder' = [responder EXCEPT !.headers = <<cl>>]
    /\ UNCHANGED <<rrest, reqbody, rlast, fed>>
    /\ UNCHANGED <<pvars, cvars, avars>>

NextResponder == OnData \/ SetHeaders

SpecResponder == InitResponder /\ [][NextResponder]_vars

---------------------------------------------------------------------------
(* growler/middleware_chain.py *)

\* the handlers given to a chain: a function and the number of parameters
\* its signature declares
Funcs ==
    { [name |-> "two", params |-> 2],
      [name |-> "three", params |-> 3],
      [name |-> "four", params |-> 4] }

Paths == { <<"/">>, <<"/", "x">> }

\* a mutant of add: a handler of four parameters is the error handler
add_ErrorOnFour(mw, method_mask, path, func) ==
    Append(mw, [func |-> func, path |-> path, err |-> (func.params = 4)])

\* MiddlewareChain.add: the MiddlewareTuple (func, path, err) is appended;
\* the method mask is not stored
add(mw, method_mask, path, func) ==
    Append(mw, [func |-> func, path |-> path, err |-> (func.params = 3)])

\* MiddlewareChain.__call__: yield from self.mw_list, whatever the path and
\* the method are
__call__(mw, path, method) == mw

\* a mutant of __contains__: only the normal stages are looked at
__contains___NormalOnly(mw, func) ==
    \E i \in 1..Len(mw) : mw[i].func = func /\ ~mw[i].err

\* MiddlewareChain.__contains__: any(mw.func is func for mw in self.mw_list)
__contains__(mw, func) ==
    \E i \in 1..Len(mw) : mw[i].func = func

\* the methods of the requests a chain is called for
Methods == {GET, POST}

InitChain ==
    /\ mw_list = <<>>
    /\ yielded = <<>>
    /\ IdleParser
    /\ IdleResponder
    /\ IdleApp

Add ==
    /\ Len(mw_list) < MaxChain
    /\ \E func \in Funcs, path \in Paths, mask \in {1, 4095} :
           mw_list' = add(mw_list, mask, path, func)
    /\ UNCHANGED <<yielded, pvars, rvars, avars>>

\* the chain is called for a request and its generator is run to its end
Call ==
    /\ \E path \in Paths, method \in Methods :
           yielded' = <<[op |-> "call", path |-> path, method |-> method,
                        of |-> Len(mw_list),
                        items |-> __call__(mw_list, path, method)]>>
    /\ UNCHANGED <<mw_list, pvars, rvars, avars>>

\* 'func in chain' is evaluated; yielded keeps the question and its answer
Contains ==
    /\ \E func \in Funcs :
           yielded' = <<[op |-> "contains", func |-> func, of |-> Len(mw_list),
                        result |-> __contains__(mw_list, func)]>>
    /\ UNCHANGED <<mw_list, pvars, rvars, avars>>

NextChain == Add \/ Call \/ Contains

SpecChain == InitChain /\ [][NextChain]_vars

---------------------------------------------------------------------------
(* growler/app.py: App and its dispatcher _handle_connection *)

\* App.__init__: every handler list is empty; routers holds the default
\* router unless no_default_router was given
NewApp(no_default_router) ==
    [ on_connection |-> <<>>,
      on_headers    |-> <<>>,
      middleware    |-> <<>>,
      on_error      |-> <<>>,
      on_http_error |-> <<>>,
      routers       |-> IF no_default_router THEN 0 ELSE 1 ]

\* the lists App keeps beside the middleware list
HookLists == {"on_connection", "on_headers", "on_error", "on_http_error"}

\* how many handlers the app holds; a handler is named by the number of its
\* registration, so a list holds its handlers in registration order
Registered(a) ==
    Len(a.on_connection) + Len(a.on_headers) + Len(a.middleware)
        + Len(a.on_error) + Len(a.on_http_error)

\* what a handler does when called: it may end the response, and it may
\* return or raise
Outcomes == [ends : BOOLEAN, raises : {"no", "HTTPError", "Exception"}]

\* what the request's processing task does
TaskOutcomes == {"ok", "HTTPError", "Exception"}

\* the routes match_routes may yield: a route has an id, and a route of id 0
\* is a false value
Routes == {0, 1, 2}

RoutesUpTo(n) == UNION { [1..k -> Routes] : k \in 0..n }

Entry(phase, id) == [phase |-> phase, id |-> id]

\* for f in <list>: f(...), every handler of the list in turn
RunAll(phase, list) == [i \in 1..Len(list) |-> Entry(phase, list[i])]

\* a mutant of HandlerAt: the list is walked from its end
HandlerAt_Reversed(list, i) == list[Len(list) + 1 - i]

\* the i-th handler a for loop over the list takes
HandlerAt(list, i) == list[i]

\* a mutant of Continue: the dispatcher goes on whatever res.has_ended is
Continue_Unchecked(e, next) == next

\* if res.has_ended: return
Continue(e, next) == IF e THEN "done" ELSE next

\* a mutant of HooksFor: the two hook lists are taken for each other
HooksFor_Swapped(a, raised) ==
    IF raised = "HTTPError" THEN RunAll("on_error", a.on_error)
    ELSE IF raised = "Exception" THEN RunAll("on_http_error", a.on_http_error)
    ELSE <<>>

\* the error hooks that handle an exception
HooksFor(a, raised) ==
    IF raised = "HTTPError" THEN RunAll("on_http_error", a.on_http_error)
    ELSE IF raised = "Exception" THEN RunAll("on_error", a.on_error)
    ELSE <<>>

\* App._call_and_handle_error: func(req, res) is called; what it raises is
\* caught and handed to the hooks of its kind, one of which may end the
\* response (hookEnds); nothing is raised to the caller
_call_and_handle_error(a, e, stage, o, hookEnds) ==
    [ log   |-> <<stage>> \o HooksFor(a, o.raises),
      ended |-> e \/ o.ends \/ (hookEnds /\ HooksFor(a, o.raises) # <<>>) ]

\* the loop the dispatcher enters after the on-headers loop
AfterHeaders(a) == IF a.middleware # <<>> THEN "middleware" ELSE "route"

\* the loop the dispatcher enters after the processing task
AfterParse(a) == IF a.on_headers # <<>> THEN "on_headers" ELSE AfterHeaders(a)

InitApp ==
    /\ \E no_default_router \in BOOLEAN : app = NewApp(no_default_router)
    /\ pc = "setup"
    /\ idx = 0
    /\ ended = FALSE
    /\ log = <<>>
    /\ escaped = <<>>
    /\ errors = <<>>
    /\ matched = <<>>
    /\ IdleParser
    /\ IdleResponder
    /\ IdleChain

\* App.use: the middleware is appended to the middleware list
Use ==
    /\ pc = "setup"
    /\ Registered(app) < MaxHandlers
    /\ app' = [app EXCEPT !.middleware = Append(@, Registered(app) + 1)]
    /\ UNCHANGED <<pc, idx, ended, log, escaped, errors, matched, pvars, rvars, cvars>>

\* a hook is appended to one of the lists _on_connection, _on_headers,
\* _on_error, _on_http_error
AddHook ==
    /\ pc = "setup"
    /\ Registered(app) < MaxHandlers
    /\ \E l \in HookLists :
           app' = [app EXCEPT ![l] = Append(@, Registered(app) + 1)]
    /\ UNCHANGED <<pc, idx, ended, log, escaped, errors, matched, pvars, rvars, cvars>>

\* an exception caught by an except clause: its kind, and the place in the
\* log of the call that raised it
Caught(raised, at) ==
    IF raised \in {"HTTPError", "Exception"}
    THEN <<[kind |-> raised, at |-> at]>>
    ELSE <<>>

\* a mutant of Cancel: the failed task is not cancelled
Cancel_Never(t) == <<>>

\* processing_task.cancel(), the first statement of both except clauses
\* around the processing task
Cancel(t) == IF t = "ok" THEN <<>> ELSE <<Entry("cancel", 0)>>

\* _handle_connection up to the processing task: every on-connection hook is
\* called; a hook that raises (the k-th) ends the dispatcher, nothing
\* catches it
Connect ==
    /\ pc = "setup"
    /\ \E k \in 0..Len(app.on_connection) :
         IF k = 0
         THEN /\ log' = log \o RunAll("on_connection", app.on_connection)
              /\ pc' = "parse"
              /\ escaped' = escaped
         ELSE /\ log' = log \o RunAll("on_connection", Take(app.on_connection, k))
              /\ pc' = "raised"
              /\ escaped' = <<"Exception">>
    /\ UNCHANGED <<app, idx, ended, errors, matched, pvars, rvars, cvars>>

\* yield from processing_task: an error of the task is handed to the hooks of
\* its kind and the dispatcher returns
ProcessingTask ==
    /\ pc = "parse"
    /\ \E t \in TaskOutcomes, hookEnds \in BOOLEAN :
         /\ log' = log \o <<Entry("parse", 0)>> \o Cancel(t) \o HooksFor(app, t)
         /\ errors' = errors \o Caught(t, Len(log) + 1)
         /\ ended' = (hookEnds /\ HooksFor(app, t) # <<>>)
         /\ pc' = IF t = "ok" THEN AfterParse(app) ELSE "done"
    /\ idx' = 1
    /\ UNCHANGED <<app, escaped, matched, pvars, rvars, cvars>>

\* one round of the loop over _on_headers
OnHeaders ==
    /\ pc = "on_headers"
    /\ \E o \in Outcomes, hookEnds \in BOOLEAN :
         \E r \in { _call_and_handle_error(app, ended,
                       Entry("on_headers", HandlerAt(app.on_headers, idx)),
                       o, hookEnds) } :
            /\ log' = log \o r.log
            /\ errors' = errors \o Caught(o.raises, Len(log) + 1)
            /\ ended' = r.ended
            /\ IF idx < Len(app.on_headers)
               THEN /\ pc' = Continue(r.ended, "on_headers")
                    /\ idx' = idx + 1
               ELSE /\ pc' = Continue(r.ended, AfterHeaders(app))
                    /\ idx' = 1
    /\ UNCHANGED <<app, escaped, matched, pvars, rvars, cvars>>

\* one round of the loop over the middleware list
Middleware ==
    /\ pc = "middleware"
    /\ \E o \in Outcomes, hookEnds \in BOOLEAN :
         \E r \in { _call_and_handle_error(app, ended,
                       Entry("middleware", HandlerAt(app.middleware, idx)),
                       o, hookEnds) } :
            /\ log' = log \o r.log
            /\ errors' = errors \o Caught(o.raises, Len(log) + 1)
            /\ ended' = r.ended
            /\ IF idx < Len(app.middleware)
               THEN /\ pc' = Continue(r.ended, "middleware")
                    /\ idx' = idx + 1
               ELSE /\ pc' = Continue(r.ended, "route")
                    /\ idx' = 1
    /\ UNCHANGED <<app, escaped, matched, pvars, rvars, cvars>>

\* the route the dispatcher calls: the loop variable after the loop over the
\* generator, that is the last route yielded
RouteCalled(rs) == rs[Len(rs)]

\* the routes: routers[0] must exist; the loop runs over everything
\* match_routes yields and raises on a false route; the route called is the
\* last one yielded, and with none yielded the name route is unbound; a
\* route that leaves the response open leaves the dispatcher waiting on a
\* future nothing resolves
Route ==
    /\ pc = "route"
    /\ \/ /\ app.routers = 0
          /\ escaped' = <<"IndexError">>
          /\ pc' = "raised"
          /\ UNCHANGED <<log, ended, errors, matched>>
       \/ /\ app.routers > 0
          /\ \E rs \in RoutesUpTo(MaxRoutes) :
               /\ matched' = rs
               /\ IF \E i \in 1..Len(rs) : rs[i] = 0
                  THEN /\ escaped' = <<"HTTPErrorInternalServerError">>
                       /\ pc' = "raised"
                       /\ UNCHANGED <<log, ended, errors>>
                  ELSE IF rs = <<>>
                  THEN /\ escaped' = <<"UnboundLocalError">>
                       /\ pc' = "raised"
                       /\ UNCHANGED <<log, ended, errors>>
                  ELSE \E o \in Outcomes, hookEnds \in BOOLEAN :
                         \E r \in { _call_and_handle_error(app, ended,
                                       Entry("route", RouteCalled(rs)), o, hookEnds) } :
                            /\ log' = log \o r.log
                            /\ errors' = errors \o Caught(o.raises, Len(log) + 1)
                            /\ ended' = r.ended
                            /\ pc' = Continue(r.ended, "waiting")
                            /\ escaped' = escaped
    /\ UNCHANGED <<app, idx, pvars, rvars, cvars>>

NextApp == Use \/ AddHook \/ Connect \/ ProcessingTask \/ OnHeaders \/ Middleware \/ Route

SpecApp == InitApp /\ [][NextApp]_vars

---------------------------------------------------------------------------
(* Claims about the responder *)

\* the headers are set and declare a Content-Length, as text or as an integer
DeclaresLength ==
    responder.headers # <<>> /\ responder.headers[1].kind \in {"str", "int"}

\* the responder counts the body bytes (the method was POST or PUT) and the
\* declared length is an integer it can compare the count with
ComparesLength ==
    /\ responder.content_length # <<>>
    /\ responder.headers # <<>>
    /\ responder.headers[1].kind = "int"

\* C4 (as the code has it): with a Content-Length of N declared, the
\* on_data call that brings the body bytes received above N fails with
\* BadRequest, and the request's body stays unresolved from then on. The
\* phrase is 'Content length exceeds expected value' when the responder
\* counts the bytes (a POST or PUT request) and the declared length is an
\* integer, and 'Unexpected body data sent' otherwise.
C4_Overflow ==
    (DeclaresLength /\ Len(fed) > responder.headers[1].n)
        => /\ reqbody = <<>>
           /\ rlast.body
                => /\ rlast.out = "BadRequest"
                   /\ rlast.phrase = IF ComparesLength THEN "exceeds" ELSE "unexpected"

\* C4 as stated: every on_data call that takes the body bytes above the
\* declared N fails with BadRequest('content length exceeds expected value').
C4_Original ==
    (DeclaresLength /\ Len(fed) > responder.headers[1].n /\ rlast.body)
        => /\ rlast.out = "BadRequest"
           /\ rlast.phrase = "exceeds"
           /\ reqbody = <<>>

\* C4 witness: two on_data calls brought body bytes for a POST request, the
\* second of them took the total above the declared length and was refused
C4_Witness ==
    /\ ComparesLength
    /\ responder.headers[1].n >= 1
    /\ responder.content_length # <<>>
    /\ responder.content_length[1] = Len(fed)
    /\ Len(fed) > responder.headers[1].n
    /\ rlast.body /\ rlast.out = "BadRequest" /\ rlast.phrase = "exceeds"
    /\ Len(fed) = MaxBody /\ rrest = <<>>

\* C5: length enforcement, completion. With a Content-Length of N > 0
\* declared, when the body bytes counted reach exactly N the request's body
\* is resolved with the bytes received, in arrival order.
C5_Completion ==
    (DeclaresLength /\ responder.headers[1].n > 0
        /\ responder.content_length = <<responder.headers[1].n>>)
        => reqbody = <<fed>>

---------------------------------------------------------------------------
(* Claims about the middleware chain *)

\* every entry's role follows the handler's declared parameters: three
\* parameters make an error handler, any other number a normal stage
RoleByArity ==
    \A i \in 1..Len(mw_list) : mw_list[i].err = (mw_list[i].func.params = 3)

\* an entry, once in the list, keeps its place, its handler and its role
EntriesFixed ==
    /\ Len(mw_list') >= Len(mw_list)
    /\ \A i \in 1..Len(mw_list) : mw_list'[i] = mw_list[i]

---------------------------------------------------------------------------
(* Claims about the dispatcher *)

\* the handlers of one phase that were invoked, in the order of the log
PhaseIds(ph) ==
    LET sub == SelectSeq(log, LAMBDA e : e.phase = ph)
    IN  [i \in 1..Len(sub) |-> sub[i].id]

Ran(ph) == \E i \in 1..Len(log) : log[i].phase = ph

\* C2: once an on-headers hook or a middleware stage (or any other stage)
\* has left the response with has_ended true, the dispatcher has returned
\* and no handler is invoked for the request any more: no later on-headers
\* hook, no later middleware, no route handler, no error hook; the log of
\* invocations stops growing.
C2_ShortCircuit ==
    /\ [](ended => pc = "done")
    /\ [][ended => log' = log]_vars

\* the first of two on-headers hooks ended the response while middleware
\* was registered too: the dispatcher returned with only that hook run
C2_Witness ==
    /\ ended
    /\ Len(app.on_headers) >= 2
    /\ app.middleware # <<>>
    /\ PhaseIds("on_headers") = <<app.on_headers[1]>>
    /\ log[Len(log)].phase = "on_headers"
    /\ ~Ran("middleware")
    /\ ~Ran("route")

\* the place of a phase in the order of the dispatcher
Rank(ph) ==
    CASE ph = "on_connection" -> 1
      [] ph = "parse"         -> 2
      [] ph = "on_headers"    -> 3
      [] ph = "middleware"    -> 4
      [] ph = "route"         -> 5
      [] OTHER                -> 0

Stages == SelectSeq(log, LAMBDA e : Rank(e.phase) > 0)

IsPrefix(s, t) == Len(s) <= Len(t) /\ s = Take(t, Len(s))

\* a stage of a later phase has been invoked
RanAfter(ph) == \E i \in 1..Len(Stages) : Rank(Stages[i].phase) > Rank(ph)

\* C10: within one connection the on-connection hooks run first, then the
\* parse task, then every on-headers hook in registration order, then every
\* middleware in registration order, then the route handler; no stage of an
\* earlier phase runs after a stage of a later phase, within a phase the
\* handlers run in the order they were registered, each once, and a later
\* phase starts only after every handler of the earlier lists has run.
C10_StageOrder ==
    /\ \A i, j \in 1..Len(Stages) :
           i < j => Rank(Stages[i].phase) <= Rank(Stages[j].phase)
    /\ \A ph \in {"on_connection", "on_headers", "middleware"} :
           /\ IsPrefix(PhaseIds(ph), app[ph])
           /\ RanAfter(ph) => PhaseIds(ph) = app[ph]
    /\ Len(PhaseIds("parse")) <= 1
    /\ Len(PhaseIds("route")) <= 1
    /\ RanAfter("parse") => Ran("parse")

\* a connection went through all five phases, two middleware among them
C10_Witness ==
    /\ app.on_connection # <<>>
    /\ app.on_headers # <<>>
    /\ Len(app.middleware) >= 2
    /\ PhaseIds("on_connection") = app.on_connection
    /\ PhaseIds("on_headers") = app.on_headers
    /\ PhaseIds("middleware") = app.middleware
    /\ Ran("parse")
    /\ Ran("route")

---------------------------------------------------------------------------
(* Claims about the dispatcher's error paths *)

\* a stage, as opposed to an error hook or the cancelling of the task
IsStage(e) == Rank(e.phase) > 0

\* the k-th caught exception was raised by a stage called through
\* _call_and_handle_error
RaisedByStage(k) ==
    log[errors[k].at].phase \in {"on_headers", "middleware", "route"}

\* C11: when a stage invoked through _call_and_handle_error (on-headers
\* hook, middleware or route) raises, this request's dispatch stops: no
\* on-headers hook, middleware or route handler is invoked after it, even if
\* the error hooks leave the response not ended.
C11_StopOnRaise ==
    \A k \in 1..Len(errors) :
        RaisedByStage(k)
            => \A j \in 1..Len(log) : j > errors[k].at => ~IsStage(log[j])

\* the dispatcher under its scheduling: the event loop runs the coroutine
\* whenever it can take a step
SpecAppFair == SpecApp /\ WF_vars(NextApp)

\* C12: if the matched route handler returns without marking the response
\* ended, the dispatcher eventually finishes; it never stays suspended
\* forever on that request.
C12_RoutesFinish == (pc = "waiting") ~> (pc = "done")

\* C13: when the router yields no matching route for a request that passed
\* all middleware without ending, the failure is caught inside the
\* dispatcher: no exception propagates out of _handle_connection from the
\* routing step.
C13_RoutingFailureCaught ==
    (app.routers > 0 /\ Ran("parse")) => escaped = <<>>

\* C14: no execution of _handle_connection finishes with the response not
\* ended: after a parse or stage failure, even with no error hook
\* registered or none ending the response, the response is ended when the
\* dispatcher returns.
C14_AlwaysResponds == pc = "done" => ended

---------------------------------------------------------------------------
(* Claims about matching in the middleware chain *)

\* a path filter matches a request path it is equal to or a prefix of
PathMatches(filter, path) == StartsWith(path, filter)

\* C15: calling the chain for a request (path, method) yields exactly the
\* registered normal handlers whose path filter matches the path, in
\* registration order; entries classified as error handlers are never
\* yielded by normal matching. (The method mask is not kept in an entry, so
\* it is left out of what is expected here.)
C15_Matching ==
    (yielded # <<>> /\ yielded[1].op = "call")
        => yielded[1].items
             = SelectSeq(Take(mw_list, yielded[1].of),
                         LAMBDA e : ~e.err /\ PathMatches(e.path, yielded[1].path))

---------------------------------------------------------------------------
(* Claims about the responder's hand-over from headers to body *)

\* every byte of the request line and of the header block, the blank line
\* included, has been given to on_data
HeadGiven == Len(rrest) <= MaxBody

\* the bytes after the blank line that on_data has been given so far
BodyGiven == Take(BodyBytes, MaxBody - Len(rrest))

\* the last on_data call is the one in which the parser finished the headers
HeadersJustCompleted == ~rlast.body /\ rlast.out = "AttributeError"

\* C16: once the on_data calls have brought a complete valid request line
\* and header block, the Request/Response pair has been built and
\* begin_application invoked exactly once.
C16_BuiltOnce == HeadGiven => (responder.has_req /\ responder.begun = 1)

\* C17: when the on_data chunk in which the headers end also holds body
\* bytes, those bytes are passed to the body collector within that same
\* call: after it, every byte given after the blank line has reached the
\* collector.
C17_TrailingBytes == (HeadGiven /\ HeadersJustCompleted) => fed = BodyGiven

---------------------------------------------------------------------------
(* Claims about the error hooks *)

\* the hook list an exception of a kind belongs to, and its name
ListName(kind) == IF kind = "HTTPError" THEN "on_http_error" ELSE "on_error"

HookRun(kind) ==
    [i \in 1..Len(app[ListName(kind)]) |->
        [phase |-> ListName(kind), id |-> app[ListName(kind)][i]]]

IsHook(e) == e.phase \in {"on_error", "on_http_error"}

\* the k-th caught exception came out of the processing task
RaisedByTask(k) == log[errors[k].at].phase = "parse"

\* where in the log the hooks for the k-th caught exception start
HookStart(k) == errors[k].at + (IF RaisedByTask(k) THEN 2 ELSE 1)

HookEnd(k) == HookStart(k) + Len(HookRun(errors[k].kind)) - 1

\* C18: when the parse task fails, the task is cancelled before any error
\* hook runs, then every registered HTTP-error hook (for an HTTPError) or
\* every registered generic-error hook (for any other error) is invoked, in
\* registration order, and after that nothing runs for the connection: no
\* on-headers hook, no middleware, no route; the dispatcher has returned.
C18_ParseFailure ==
    \A k \in 1..Len(errors) :
        RaisedByTask(k)
            => /\ Len(log) = HookEnd(k)
               /\ log[errors[k].at + 1].phase = "cancel"
               /\ SubSeq(log, HookStart(k), HookEnd(k)) = HookRun(errors[k].kind)
               /\ pc = "done"
               /\ k = 1 /\ Len(errors) = 1

\* the parse task failed with an HTTPError on an app with two HTTP-error
\* hooks, an on-headers hook and a middleware
C18_Witness ==
    /\ Len(errors) = 1
    /\ RaisedByTask(1)
    /\ errors[1].kind = "HTTPError"
    /\ Len(app.on_http_error) = 2
    /\ app.on_headers # <<>>
    /\ app.middleware # <<>>
    /\ Len(log) = 4

\* C19: error classification is exclusive and ordered: an HTTPError causes
\* only the HTTP-error hooks to be invoked, any other failure only the
\* generic-error hooks; for each caught failure every hook of the chosen
\* list is invoked exactly once, in registration order, right after the
\* failure, and no hook is invoked otherwise.
C19_Classification ==
    /\ \A k \in 1..Len(errors) :
           /\ HookEnd(k) <= Len(log)
           /\ SubSeq(log, HookStart(k), HookEnd(k)) = HookRun(errors[k].kind)
    /\ \A j \in 1..Len(log) :
           IsHook(log[j])
               => \E k \in 1..Len(errors) : HookStart(k) <= j /\ j <= HookEnd(k)

\* one request in which a stage raised an HTTPError and a later stage
\* another exception, with one HTTP-error hook and two generic-error hooks
C19_Witness ==
    /\ Len(errors) = 2
    /\ errors[1].kind = "HTTPError"
    /\ errors[2].kind = "Exception"
    /\ Len(app.on_http_error) = 1
    /\ Len(app.on_error) = 2
    /\ Len(SelectSeq(log, IsHook)) = 3

\* C20: no resumption after interception: once an error hook list has run
\* for a request, no stage is invoked and no hook list is run again for
\* that request.
C20_NoResumption ==
    /\ \A i, j \in 1..Len(log) : (i < j /\ IsHook(log[i])) => ~IsStage(log[j])
    /\ \A k1, k2 \in 1..Len(errors) :
           k1 < k2 => (HookRun(errors[k1].kind) = <<>> \/ HookRun(errors[k2].kind) = <<>>)

---------------------------------------------------------------------------
(* Further claims about the parser *)

\* the block is header lines only, at least two of them: the same name
\* (in upper and lower case) on separate lines
RepeatedName ==
    /\ Len(input.hl) >= 2
    /\ \A i \in 1..Len(input.hl) : input.hl[i] \in HeadLines

\* C21: when the same header name occurs on several separate header lines
\* of one request, the committed header collection holds for that name the
\* ordered list of all the values in encounter order; no earlier value is
\* lost.
C21_RepeatedNamesFold ==
    (parent.headers # <<>> /\ RepeatedName)
        => parent.headers[1] =
               { [key |-> <<"A">>,
                  val |-> [list  |-> TRUE,
                           items |-> [i \in 1..Len(input.hl) |-> HeadValue(input.hl[i])]]] }

\* the failures of a consume call that C22 names
ParseErrors == {"BadRequest", "VersionNotSupported", "NotImplemented", "InvalidHeader"}

\* C22: ERROR is terminal for the parser: the consume call that follows a
\* failed one commits neither a request line nor headers (set_request_line
\* and set_headers are not called).
C22_ErrorTerminal ==
    [][last.out \in ParseErrors => parent' = parent]_vars

\* the request line is followed at once by the blank line
BlankLineOnly ==
    input.hl = <<>> /\ input.rl = PlainGet /\ input.eol1 = input.eol2

\* C24: a blank line ends the headers whether or not a header is pending;
\* in particular a request line immediately followed by a blank line
\* completes with an empty header collection and no failure.
C24_BlankLineEnds ==
    (rest = <<>> /\ BlankLineOnly)
        => /\ parent.headers = << {} >>
           /\ last.out = "ok"

\* the token the bytes received so far decide: '\r\n' when the character
\* before their first '\n' is '\r', and '\n' otherwise
TokenOfStream ==
    LET pos == Find(Consumed, LF)
    IN  IF pos > 1 /\ Consumed[pos - 1] = "\r" THEN CRLF ELSE LF

\* C27: the end-of-line token is decided from the accumulated input: once
\* the bytes received hold a '\n', the token is '\r\n' exactly when the
\* character before the first '\n' of the whole stream is '\r', even if
\* that '\r' arrived in an earlier chunk, and '\n' otherwise.
C27_EolFromStream ==
    Find(Consumed, LF) # 0 => parser.EOL_TOKEN = TokenOfStream

\* the characters a header name may not hold: control characters and
\* whitespace, the double quote, the backslash and the separators
ForbiddenInName ==
    { "\t", "\r", "\n", " ", "\"", "\\" }
        \cup { "(", ")", ",", "/", ":", ";", "<", "=", ">", "?", "@", "[", "]", "{", "}" }

\* the trimmed text before the first colon of a line that has one
NameOf(line) == Strip(Take(line, Find(line, <<":">>) - 1))

\* the cases in which C25 has a non-blank header line refused
Refused(line, pending) ==
    IF line[1] \in {" ", "\t"} THEN ~pending
    ELSE \/ Find(line, <<":">>) = 0
         \/ NameOf(line) = <<>>
         \/ \E i \in 1..Len(NameOf(line)) : NameOf(line)[i] \in ForbiddenInName

\* a non-blank line has just been given to a parser that was reading headers
HeaderLineGiven ==
    /\ input # <<>>
    /\ input[1].line # <<>>
    /\ input[1].before.needs_headers

\* the header collection holds nothing but what the parser before the call
\* held, in its collection or in its pending slot
NothingAdded ==
    \A e \in parser.headers :
        \/ e \in input[1].before.headers
        \/ /\ input[1].before.header_buffer # <<>>
           /\ e.key = input[1].before.header_buffer[1].key
           /\ e.val = input[1].before.header_buffer[1].value

LowerCase ==
    { "a", "b", "c", "d", "e", "f", "g", "h", "i", "j", "k", "l", "m",
      "n", "o", "p", "q", "r", "s", "t", "u", "v", "w", "x", "y", "z" }

\* a stored header name: not empty, no lower-case letter, no forbidden
\* character
NormalKey(k) ==
    /\ k # <<>>
    /\ \A i \in 1..Len(k) : k[i] \notin LowerCase /\ k[i] \notin ForbiddenInName

\* C26: in every reachable parser state every key of the header collection
\* and the key of the pending header slot is the upper-cased form of a name
\* that passed validation: no key holds a lower-case letter or a forbidden
\* character.
C26_KeysNormalized ==
    /\ \A e \in parser.headers : NormalKey(e.key)
    /\ parser.header_buffer # <<>> => NormalKey(parser.header_buffer[1].key)

\* the collection holds the key 'A' and the pending slot the key 'B', both
\* from names written in lower case
C26_Witness ==
    /\ \E e \in parser.headers : e.key = <<"A">>
    /\ parser.header_buffer # <<>>
    /\ parser.header_buffer[1].key = <<"B">>
    /\ plines = << <<"a", ":", "v">>, <<"b", ":", " ", "w">> >>

---------------------------------------------------------------------------
(* Further claims about the responder *)

\* the headers are committed and declare no body: no Content-Length, or a
\* Content-Length of 0
NoBodyDeclared ==
    /\ responder.headers # <<>>
    /\ \/ responder.headers[1].kind = "absent"
       \/ responder.headers[1].n = 0

\* C23: when the headers are complete and no body is declared, the
\* request's body is resolved, as empty, without any further on_data call.
C23_EmptyBodyResolved == NoBodyDeclared => reqbody = << <<>> >>

---------------------------------------------------------------------------
(* Claims about the order of headers and body in the responder *)

\* C29: bytes are attributed to the body only after the headers have been
\* committed: while headers are still None no byte has been given to
\* validate_and_store_body_data, no byte has been counted (the count is None,
\* or the 0 that set_request_line starts a POST or PUT request with) and
\* the body buffer is untouched.
C29_HeadersBeforeBody ==
    responder.headers = <<>>
        => /\ fed = <<>>
           /\ responder.content_length \in { <<>>, <<0>> }
           /\ responder.body_buffer = <<>>

\* a POST request whose headers are still None although on_data has been
\* given the whole header block and a body byte behind it
C29_Witness ==
    /\ responder.headers = <<>>
    /\ responder.content_length = <<0>>
    /\ HeadGiven
    /\ Len(rrest) < MaxBody

---------------------------------------------------------------------------
(* Claims about membership in the middleware chain *)

\* the handler was passed to one of the first n add calls
PassedToAdd(f, n) == \E i \in 1..n : mw_list[i].func = f

\* a membership test has just been answered, or the chain called
Asked == yielded' # yielded

\* C28: 'f in chain' is true exactly when f itself was passed to add; add
\* only appends (earlier entries keep their order and none is removed), and
\* the membership test changes nothing in the chain.
C28_Membership ==
    /\ []((yielded # <<>> /\ yielded[1].op = "contains")
            => (yielded[1].result <=> PassedToAdd(yielded[1].func, yielded[1].of)))
    /\ [][EntriesFixed]_vars
    /\ [][Asked => mw_list' = mw_list]_vars

\* with two handlers added, one of them an error handler, the membership
\* test for the error handler answered true
C28_Witness ==
    /\ yielded # <<>>
    /\ yielded[1].op = "contains"
    /\ yielded[1].result
    /\ yielded[1].of >= 2
    /\ yielded[1].func.params = 3

---------------------------------------------------------------------------
(* Claims about the route the dispatcher calls *)

\* C30: when the router yields several matching routes for a request, the
\* route handler invoked by the dispatcher is the first one that matches.
C30_FirstRoute ==
    (Ran("route") /\ Len(matched) >= 2) => PhaseIds("route") = <<matched[1]>>

---------------------------------------------------------------------------
(* The parser given any sequence of chunks *)

\* the chunks a client may send, in any order and any number of times: a
\* request line, header lines, a continuation, the blank line, a piece
\* without a line ending, a whole request, and a line that is no request line
Chunks ==
    { PlainGet \o LF,
      <<"A", ":", "v">> \o LF,
      <<"b", ":", "w">> \o LF \o LF,
      <<" ", "c">> \o LF,
      LF,
      <<"x">>,
      PlainGet \o LF \o <<"A", ":", "v">> \o LF \o LF,
      <<"B", "A", "D">> \o LF }

\* a fresh parser and a parent that keeps, besides the arguments, the names
\* of the callbacks in the order they were called
InitCalls ==
    /\ parser = NewParser
    /\ input = <<>>
    /\ rest = <<>>
    /\ parent = [request_line |-> <<>>, headers |-> <<>>, calls |-> <<>>]
    /\ last = [out |-> "none", rl |-> <<>>, srl |-> FALSE, sh |-> FALSE]
    /\ plines = <<>>
    /\ IdleResponder
    /\ IdleChain
    /\ IdleApp

\* one consume call with any chunk; consume calls set_request_line (line 76)
\* before set_headers (line 90). input keeps the chunks sent so far.
ConsumeChunk ==
    /\ Len(input) < MaxCalls
    /\ \E data \in Chunks :
         \E r \in {consume(parser, data)} :
             /\ parser' = r.p
             /\ parent' = [request_line |-> parent.request_line \o r.srl,
                           headers      |-> parent.headers \o r.sh,
                           calls        |-> parent.calls
                                \o (IF r.srl # <<>> THEN <<"set_request_line">> ELSE <<>>)
                                \o (IF r.sh # <<>> THEN <<"set_headers">> ELSE <<>>)]
             /\ last' = [out |-> r.out, rl |-> r.rl,
                         srl |-> r.srl # <<>>, sh |-> r.sh # <<>>]
             /\ plines' = plines \o r.lines
             /\ input' = Append(input, data)
    /\ rest' = rest
    /\ UNCHANGED <<rvars, cvars, avars>>

NextCalls == ConsumeChunk

SpecCalls == InitCalls /\ [][NextCalls]_vars

---------------------------------------------------------------------------
(* Claims about the callback protocol *)

\* the callbacks made so far: none, set_request_line alone, or
\* set_request_line and then set_headers
CallsInOrder ==
    parent.calls \in { <<>>, <<"set_request_line">>,
                       <<"set_request_line", "set_headers">> }

\* the parser is never past the headers while it still waits for the
\* request line
PhaseOrdered == ~parser.needs_headers => ~parser.needs_request_line

\* a flag that went to false stays false
PhaseForward ==
    /\ ~parser.needs_request_line => ~parser'.needs_request_line
    /\ ~parser.needs_headers => ~parser'.needs_headers

\* C31: over any sequence of consume calls, set_request_line is called at
\* most once, set_headers at most once and only after set_request_line, and
\* the phase flags needs_request_line and needs_headers only go from true to
\* false, needs_headers never being false while needs_request_line is true
C31_CallbackProtocol ==
    [](CallsInOrder /\ PhaseOrdered) /\ [][PhaseForward]_vars

\* both callbacks were made by the first call and two more chunks were
\* consumed after it
C31_Witness ==
    /\ parent.calls = <<"set_request_line", "set_headers">>
    /\ Len(input) >= 3
    /\ input[1] = PlainGet \o LF \o <<"A", ":", "v">> \o LF \o LF
    /\ ~parser.needs_headers

---------------------------------------------------------------------------
(* Claims about the received-byte counter *)

\* the responder's content_length, None counting as no byte received
Counted ==
    IF responder.content_length = <<>> THEN 0 ELSE responder.content_length[1]

\* the total length of the chunks in body_buffer, None holding none
Stored ==
    IF responder.body_buffer = <<>> THEN 0
    ELSE Len(JoinChunks(responder.body_buffer[1]))

\* C32: in every reachable responder state, also after a rejected chunk, the
\* counter content_length equals the total length of the chunks stored in
\* body_buffer
C32_CounterMatchesBuffer == Counted = Stored

---------------------------------------------------------------------------
(* MiddlewareChain.last_router *)

\* a Router instance. growler/router.py is not part of the sources at hand:
\* a router is taken to be an object told apart by its identity (id) and
\* called as a normal handler
Router(id) == [name |-> "router", id |-> id, params |-> 2]

\* isinstance(func, Router)
IsRouter(func) == func.name = "router"

\* the Router() that last_router constructs for the chain mw: an object
\* that is none of those already in the chain nor the one its user holds
FreshRouter(mw) == Router(Len(mw) + 1)

\* MiddlewareChain.last_router. Subscripting an empty mw_list with -1 raises
\* IndexError; out is "ok" or the exception, ret what is returned, mw the
\* list after the call
last_router(mw) ==
    IF mw = <<>>
    THEN [mw |-> mw, out |-> "IndexError", ret |-> <<>>]
    ELSE LET mw1 == IF ~IsRouter(mw[Len(mw)].func)
                    THEN add(mw, 4095, <<"/">>, FreshRouter(mw))
                    ELSE mw
         IN  [mw |-> mw1, out |-> "ok", ret |-> <<mw1[Len(mw1)].func>>]

\* what the users of the chain add: the handlers of Funcs and a router of
\* their own
Entries == Funcs \cup {Router(0)}

InitRouters ==
    /\ mw_list = <<>>
    /\ yielded = <<>>
    /\ IdleParser
    /\ IdleResponder
    /\ IdleApp

AddEntry ==
    /\ Len(mw_list) < MaxChain
    /\ \E func \in Entries, path \in Paths :
           mw_list' = add(mw_list, 4095, path, func)
    /\ UNCHANGED <<yielded, pvars, rvars, avars>>

\* last_router is called; yielded keeps the list before and after the call
\* and what the call returned or raised
LastRouter ==
    /\ \E r \in {last_router(mw_list)} :
         /\ mw_list' = r.mw
         /\ yielded' = <<[op |-> "last_router", before |-> mw_list,
                          after |-> r.mw, out |-> r.out, ret |-> r.ret]>>
    /\ UNCHANGED <<pvars, rvars, avars>>

NextRouters == AddEntry \/ LastRouter

SpecRouters == InitRouters /\ [][NextRouters]_vars

---------------------------------------------------------------------------
(* Claims about last_router *)

\* the outcome of the last call of last_router, if there was one
LastRouterCalled == yielded # <<>> /\ yielded[1].op = "last_router"

\* the call returned a Router that is the last entry of the chain, having
\* appended at most one entry, itself a Router
ReturnsLastEntry ==
    LET y == yielded[1]
    IN  /\ y.out = "ok"
        /\ IsRouter(y.ret[1])
        /\ y.after # <<>> /\ y.after[Len(y.after)].func = y.ret[1]
        /\ \/ y.after = y.before
           \/ /\ Len(y.after) = Len(y.before) + 1
              /\ Take(y.after, Len(y.before)) = y.before

\* a second call right after returns the same Router and leaves the chain as
\* it is
SecondCallSame ==
    LET y == yielded[1]
        again == last_router(y.after)
    IN  again.out = "ok" /\ again.ret = y.ret /\ again.mw = y.after

\* C33: last_router, called in any reachable chain state, the empty chain
\* included, returns a Router that is the last entry of the chain, appending
\* at most one new Router entry; a second call in a row returns the same
\* Router and does not grow the chain
C33_LastRouter == LastRouterCalled => ReturnsLastEntry /\ SecondCallSame

\* the same on the chains that hold at least one entry when last_router is
\* called
LastRouterOnNonEmpty ==
    (LastRouterCalled /\ yielded[1].before # <<>>)
        => ReturnsLastEntry /\ SecondCallSame

=============================================================================
